---- MODULE Spec2Model ----
(***************************************************************************)
(* jsonl-db: the entity store returned by jsonlDir(dirPath).file(name),    *)
(* src/lib/jsonlDir.ts.  One backing file (a sequence of JSON lines), and  *)
(* the operations add, findOne, find, update, delete and count, each an    *)
(* async function that suspends at every await (batch read, append,        *)
(* rename).  The JSONL accessor (./jsonl) and temporaryFileTask            *)
(* (./temporaryFileTask) are collaborators modelled by their contract.     *)
(***************************************************************************)
EXTENDS Integers, Sequences, FiniteSets, TLC

\* ------------------------------------------------------------------ bounds
MaxLen == 3     \* most lines the backing file holds
MaxBatch == 2   \* most records the scan delivers in one batch
MaxAdd == 2     \* most records in the array given to add

\* ----------------------------------------------------------------- records
Ids == {1, 2}
Names == {"a", "b"}
Records == [id : Ids, name : Names]

Procs == {"p", "q"}
MainProc == "p"

\* A file at a path: absent, or a sequence of lines.
NoFile == [exists |-> FALSE, lines |-> <<>>]
FileOf(ls) == [exists |-> TRUE, lines |-> ls]

RECURSIVE SeqsUpTo(_, _)
SeqsUpTo(S, n) ==
    IF n = 0 THEN {<<>>}
    ELSE LET shorter == SeqsUpTo(S, n - 1)
         IN  shorter \cup {Append(s, x) : s \in {t \in shorter : Len(t) = n - 1}, x \in S}

\* JSON.stringify of a record: the line that carries its fields.
Stringify(r) == <<r.id, r.name>>
\* The decoding of a line done by the accessor's read.
Parse(l) == [id |-> l[1], name |-> l[2]]

Lines == {Stringify(r) : r \in Records}

StringifyAll(rs) == [i \in 1..Len(rs) |-> Stringify(rs[i])]
ParseAll(ls) == [i \in 1..Len(ls) |-> Parse(ls[i])]

\* What a complete scan of a file decodes: an absent file reads as empty.
ReadAll(f) == IF f.exists THEN ParseAll(f.lines) ELSE <<>>

\* The not-found value of findOne, and a found record.
Undefined == <<>>
Some(r) == <<r>>

\* ------------------------------------------------------- caller's inputs
\* matchFn: the set of records it is true of.
MatchFns ==
    {{r \in Records : r.id = i} : i \in Ids}
        \cup {{r \in Records : r.name = n} : n \in Names}
        \cup {Records, {}}
AlwaysTrue == Records

\* updateFn: r => ({...r, name: n}) and r => ({...r, id: 1}).
UpdateFns ==
    {[r \in Records |-> [r EXCEPT !.name = n]] : n \in Names}
        \cup {[r \in Records |-> [r EXCEPT !.id = 1]]}
NoFn == [r \in Records |-> r]

\* The argument of add: an object, an array of objects, or another value.
DataKinds == {"object", "array", "null", "number", "string"}
AddInputs ==
    {[kind |-> "object", val |-> <<r>>] : r \in Records}
        \cup {[kind |-> "array", val |-> s] : s \in SeqsUpTo(Records, MaxAdd)}
        \cup {[kind |-> k, val |-> <<>>] : k \in {"null", "number", "string"}}
NoData == [kind |-> "array", val |-> <<>>]

\* typeof o, Array.isArray(o), o !== null
TypeOf(d) == IF d.kind \in {"object", "array", "null"} THEN "object" ELSE d.kind
IsArray(d) == d.kind = "array"
\* Mutant: the o !== null test is missing.
isSingleJsonNoNull(o) == TypeOf(o) = "object" /\ ~IsArray(o)

isSingleJson(o) == TypeOf(o) = "object" /\ o.kind # "null" /\ ~IsArray(o)

\* ------------------------------------------------------------------- state
VARIABLES
    file,      \* the backing file at filePath
    temp,      \* temp[p]: the file at the tempPath of p's temporaryFileTask
    pc,        \* pc[p]: where the operation called by p is suspended
    op,        \* op[p]: the operation p called, with its arguments
    pos,       \* pos[p]: lines of the backing file p's scan has read
    nbatches,  \* nbatches[p]: batches p's scan has delivered to the visitor
    pending,   \* pending[p]: lines handed to an append that has not finished
    acc,       \* acc[p]: the closure variable found / updated / kept / itemsToAdd
    canEnd,    \* canEnd[p]: findOne's canEnd
    seen,      \* seen[p]: the records findOne has passed to matchFn, in order
    err,       \* err[p]: the error thrown inside the temporaryFileTask, if any
    ret,       \* ret[p]: what the call returned or threw
    old,       \* old[p]: the backing file when p's operation was called
    fault,     \* fault[p]: the step of p's operation at which I/O failed
    renamed,   \* renamed[p]: p's operation has renamed its temp file
    base,      \* the records stored before the adds that no other call but find followed
    appended   \* the records those adds appended, in the order of the calls

procVars == <<temp, pc, op, pos, nbatches, pending, acc, canEnd, seen, err, ret,
              old, fault, renamed>>
vars == <<file, temp, pc, op, pos, nbatches, pending, acc, canEnd, seen, err, ret,
          old, fault, renamed, base, appended>>

OpNames == {"none", "add", "findOne", "find", "update", "delete", "count"}
NoOp == [name |-> "none", matchFn |-> {}, updateFn |-> NoFn, mutateDb |-> FALSE,
         data |-> NoData]
NoRet == [status |-> "none", value |-> <<>>, error |-> "none", n |-> 0]
Returned(v) == [status |-> "ok", value |-> v, error |-> "none", n |-> 0]
ReturnedCount(n) == [status |-> "ok", value |-> <<>>, error |-> "none", n |-> n]
Threw(e) == [status |-> "error", value |-> <<>>, error |-> e, n |-> 0]

Files == {NoFile} \cup {FileOf(ls) : ls \in SeqsUpTo(Lines, MaxLen)}

Init ==
    /\ file \in Files
    /\ temp = [p \in Procs |-> NoFile]
    /\ pc = [p \in Procs |-> "idle"]
    /\ op = [p \in Procs |-> NoOp]
    /\ pos = [p \in Procs |-> 0]
    /\ nbatches = [p \in Procs |-> 0]
    /\ pending = [p \in Procs |-> <<>>]
    /\ acc = [p \in Procs |-> <<>>]
    /\ canEnd = [p \in Procs |-> FALSE]
    /\ seen = [p \in Procs |-> <<>>]
    /\ err = [p \in Procs |-> "none"]
    /\ ret = [p \in Procs |-> NoRet]
    /\ old = [p \in Procs |-> NoFile]
    /\ fault = [p \in Procs |-> "none"]
    /\ renamed = [p \in Procs |-> FALSE]
    /\ base = ReadAll(file)
    /\ appended = <<>>

\* ------------------------------------------------------------ the visitors
Matches(matchFn, r) == r \in matchFn

\* Index in batch of the first record matchFn is true of, 0 if there is none.
FirstHit(matchFn, batch) ==
    LET hits == {i \in 1..Len(batch) : Matches(matchFn, batch[i])}
    IN  IF hits = {} THEN 0 ELSE CHOOSE i \in hits : \A j \in hits : i <= j

\* Mutant: the loop does not return at a match, so the last match of the batch
\* is the one kept.
FindOneVisitorLast(matchFn, batch, found, end) ==
    LET hits == {i \in 1..Len(batch) : Matches(matchFn, batch[i])}
    IN  IF hits # {}
        THEN [found |-> Some(batch[CHOOSE i \in hits : \A j \in hits : j <= i]),
              canEnd |-> TRUE, stop |-> TRUE, evaluated |-> batch]
        ELSE [found |-> found, canEnd |-> end, stop |-> end, evaluated |-> batch]

\* Mutant: the visitor records the match but never signals stop.
FindOneVisitorNoStop(matchFn, batch, found, end) ==
    LET h == FirstHit(matchFn, batch)
    IN  IF h > 0
        THEN [found |-> Some(batch[h]), canEnd |-> FALSE, stop |-> FALSE,
              evaluated |-> SubSeq(batch, 1, h)]
        ELSE [found |-> found, canEnd |-> FALSE, stop |-> FALSE, evaluated |-> batch]

\* findOne's visitor: the loop returns true at the first match of the batch.
FindOneVisitor(matchFn, batch, found, end) ==
    LET h == FirstHit(matchFn, batch)
    IN  IF h > 0
        THEN [found |-> Some(batch[h]), canEnd |-> TRUE, stop |-> TRUE,
              evaluated |-> SubSeq(batch, 1, h)]
        ELSE [found |-> found, canEnd |-> end, stop |-> end, evaluated |-> batch]

\* Mutant: found is assigned per batch instead of pushed to.
FindVisitorReset(matchFn, batch, found) ==
    SelectSeq(batch, LAMBDA r : Matches(matchFn, r))

\* find's visitor: pushes every match of the batch.
FindVisitor(matchFn, batch, found) ==
    found \o SelectSeq(batch, LAMBDA r : Matches(matchFn, r))

\* update, durable: the records the visitor pushes to updated for one batch.
UpdatePushed(matchFn, updateFn, batch) ==
    LET hit == SelectSeq(batch, LAMBDA r : Matches(matchFn, r))
    IN  [i \in 1..Len(hit) |-> updateFn[hit[i]]]

\* Mutant: the transient branch pushes the matching record, not its update.
UpdateCollectedRaw(matchFn, updateFn, batch) ==
    SelectSeq(batch, LAMBDA r : Matches(matchFn, r))

\* update, transient: the records the visitor pushes to updated for one batch.
UpdateCollected(matchFn, updateFn, batch) ==
    LET hit == SelectSeq(batch, LAMBDA r : Matches(matchFn, r))
    IN  [i \in 1..Len(hit) |-> updateFn[hit[i]]]

\* Mutant: only the updated records are written back.
ProcessedBatchUpdatedOnly(matchFn, updateFn, batch) ==
    UpdatePushed(matchFn, updateFn, batch)

\* update, durable: processedBatch.
ProcessedBatch(matchFn, updateFn, batch) ==
    [i \in 1..Len(batch) |->
        IF Matches(matchFn, batch[i]) THEN updateFn[batch[i]] ELSE batch[i]]

\* Mutant: the filter keeps the matching records.
KeptBatchInverted(matchFn, batch) ==
    SelectSeq(batch, LAMBDA r : Matches(matchFn, r))

\* delete, durable: keptBatch, which is also what the visitor pushes to kept.
KeptBatch(matchFn, batch) ==
    SelectSeq(batch, LAMBDA r : ~Matches(matchFn, r))

\* delete, transient: the records the visitor pushes to kept for one batch.
KeptCollected(matchFn, batch) ==
    SelectSeq(batch, LAMBDA r : ~Matches(matchFn, r))

\* --------------------------------------------------------- the accessor
\* append(records): serializes the records and appends them; creates the file.
AppendRecords(f, records) == FileOf(f.lines \o StringifyAll(records))
\* appendText(lines): appends the given lines; creates the file.
AppendLines(f, ls) == FileOf(f.lines \o ls)
\* count(): the number of records of the file; an absent file counts as empty.
CountOf(f) == Len(ReadAll(f))
\* The next batch a scan positioned after n lines reads, k records long.
BatchAt(f, n, k) == ParseAll(SubSeq(f.lines, n + 1, n + k))
\* The batch sizes the scan may deliver next.
BatchSizes(f, n) ==
    IF f.exists THEN {k \in 1..MaxBatch : n + k <= Len(f.lines)} ELSE {}
\* The scan has no batch left.
AtEnd(f, n) == ~f.exists \/ n >= Len(f.lines)

\* --------------------------------------------------------------- the calls
Set(f, p, v) == [f EXCEPT ![p] = v]

\* Mutant: the branches of if (mutateDb) are swapped.
DurableInverted(o) == ~o.mutateDb

\* if (mutateDb) of update and delete
Durable(o) == o.mutateDb
Rewriting(o) == o.name \in {"update", "delete"} /\ Durable(o)

\* p calls an operation: its closure variables are fresh.
Call(p, o, next, t, a, r) ==
    /\ pc[p] = "idle"
    /\ op' = Set(op, p, o)
    /\ pc' = Set(pc, p, next)
    /\ temp' = Set(temp, p, t)
    /\ acc' = Set(acc, p, a)
    /\ ret' = Set(ret, p, r)
    /\ old' = Set(old, p, file)
    /\ pos' = Set(pos, p, 0)
    /\ nbatches' = Set(nbatches, p, 0)
    /\ pending' = Set(pending, p, <<>>)
    /\ canEnd' = Set(canEnd, p, FALSE)
    /\ seen' = Set(seen, p, <<>>)
    /\ err' = Set(err, p, "none")
    /\ fault' = Set(fault, p, "none")
    /\ renamed' = Set(renamed, p, FALSE)
    /\ IF o.name \in {"add", "find"}
       THEN UNCHANGED <<base, appended>>
       ELSE base' = ReadAll(file) /\ appended' = <<>>
    /\ UNCHANGED file

\* Mutant: the items are appended whatever mutateDb says.
AddOutcomeAlwaysWrites(data, mutateDb) ==
    IF IsArray(data) /\ Len(data.val) = 0 THEN [next |-> "done", ret |-> Returned(<<>>)]
    ELSE IF ~IsArray(data) /\ ~isSingleJson(data)
    THEN [next |-> "done", ret |-> Threw("InvalidInput")]
    ELSE [next |-> "appendText", ret |-> NoRet]

\* Mutant: an empty array is not returned early.
AddOutcomeNoEmptyCheck(data, mutateDb) ==
    IF ~IsArray(data) /\ ~isSingleJson(data)
    THEN [next |-> "done", ret |-> Threw("InvalidInput")]
    ELSE IF mutateDb THEN [next |-> "appendText", ret |-> NoRet]
    ELSE [next |-> "done", ret |-> Returned(data.val)]

\* add: what becomes of data before the append.
AddOutcome(data, mutateDb) ==
    IF IsArray(data) /\ Len(data.val) = 0 THEN [next |-> "done", ret |-> Returned(<<>>)]
    ELSE IF ~IsArray(data) /\ ~isSingleJson(data)
    THEN [next |-> "done", ret |-> Threw("InvalidInput")]
    ELSE IF mutateDb THEN [next |-> "appendText", ret |-> NoRet]
    ELSE [next |-> "done", ret |-> Returned(data.val)]

add(p, data, mutateDb) ==
    LET o == [NoOp EXCEPT !.name = "add", !.data = data, !.mutateDb = mutateDb]
        out == AddOutcome(data, mutateDb)
    IN  /\ mutateDb => Len(file.lines) + Len(data.val) <= MaxLen
        /\ Call(p, o, out.next, NoFile,
                IF out.next = "appendText" THEN data.val ELSE <<>>, out.ret)

\* Mutant: the items are appended one by one without awaiting, last first.
AppendTextReversed(p) ==
    /\ pc[p] = "appendText"
    /\ file' = AppendLines(file, [i \in 1..Len(acc[p]) |->
                                    Stringify(acc[p][Len(acc[p]) + 1 - i])])
    /\ appended' = appended \o acc[p]
    /\ pc' = Set(pc, p, "done")
    /\ ret' = Set(ret, p, Returned(acc[p]))
    /\ UNCHANGED <<temp, op, pos, nbatches, pending, acc, canEnd, seen, err, old,
                   fault, renamed, base>>

\* add: await jsonlFile.appendText(itemsToAdd.map(JSON.stringify)); return itemsToAdd
AppendText(p) ==
    /\ pc[p] = "appendText"
    /\ file' = AppendLines(file, StringifyAll(acc[p]))
    /\ appended' = appended \o acc[p]
    /\ pc' = Set(pc, p, "done")
    /\ ret' = Set(ret, p, Returned(acc[p]))
    /\ UNCHANGED <<temp, op, pos, nbatches, pending, acc, canEnd, seen, err, old,
                   fault, renamed, base>>

findOne(p, matchFn) ==
    Call(p, [NoOp EXCEPT !.name = "findOne", !.matchFn = matchFn], "scan", NoFile,
         Undefined, NoRet)

\* Mutant: found is one array shared by the calls in flight, not one per call.
findSharedFound(p, matchFn) ==
    Call(p, [NoOp EXCEPT !.name = "find", !.matchFn = matchFn], "scan", NoFile,
         acc[CHOOSE q \in Procs : q # p], NoRet)

find(p, matchFn) ==
    Call(p, [NoOp EXCEPT !.name = "find", !.matchFn = matchFn], "scan", NoFile,
         <<>>, NoRet)

\* temporaryFileTask hands the task a fresh path; whether a file already exists
\* at it is the collaborator's choice.
TempPaths == {NoFile, FileOf(<<>>)}

update(p, matchFn, updateFn, mutateDb) ==
    LET o == [NoOp EXCEPT !.name = "update", !.matchFn = matchFn,
                          !.updateFn = updateFn, !.mutateDb = mutateDb]
    IN  \E t \in (IF Rewriting(o) THEN TempPaths ELSE {NoFile}) :
            Call(p, o, "scan", t, <<>>, NoRet)

delete(p, matchFn, mutateDb) ==
    LET o == [NoOp EXCEPT !.name = "delete", !.matchFn = matchFn,
                          !.mutateDb = mutateDb]
    IN  \E t \in (IF Rewriting(o) THEN TempPaths ELSE {NoFile}) :
            Call(p, o, "scan", t, <<>>, NoRet)

count(p) ==
    Call(p, [NoOp EXCEPT !.name = "count"], "count", NoFile, <<>>, NoRet)

\* --------------------------------------------------------------- the scans
\* jsonlFile.read delivers the next batch of p's scan, k records long.
Reads(p, name, k) ==
    /\ pc[p] = "scan"
    /\ op[p].name = name
    /\ ~canEnd[p]
    /\ k \in BatchSizes(file, pos[p])
    /\ pos' = Set(pos, p, pos[p] + k)
    /\ nbatches' = Set(nbatches, p, nbatches[p] + 1)

FindOneBatch(p) ==
    \E k \in 1..MaxBatch :
        /\ Reads(p, "findOne", k)
        /\ LET v == FindOneVisitor(op[p].matchFn, BatchAt(file, pos[p], k), acc[p],
                                   canEnd[p])
           IN  /\ acc' = Set(acc, p, v.found)
               /\ canEnd' = Set(canEnd, p, v.stop)
               /\ seen' = Set(seen, p, seen[p] \o v.evaluated)
        /\ UNCHANGED <<file, temp, pc, op, pending, err, ret, old, fault, renamed,
                       base, appended>>

FindBatch(p) ==
    \E k \in 1..MaxBatch :
        /\ Reads(p, "find", k)
        /\ acc' = Set(acc, p, FindVisitor(op[p].matchFn, BatchAt(file, pos[p], k),
                                          acc[p]))
        /\ UNCHANGED <<file, temp, pc, op, pending, canEnd, seen, err, ret, old,
                       fault, renamed, base, appended>>

\* update, durable: the visitor up to await tempFile.append(processedBatch).
UpdateBatch(p) ==
    \E k \in 1..MaxBatch :
        /\ Reads(p, "update", k)
        /\ Durable(op[p])
        /\ LET batch == BatchAt(file, pos[p], k)
           IN  /\ acc' = Set(acc, p, acc[p] \o
                             UpdatePushed(op[p].matchFn, op[p].updateFn, batch))
               /\ pending' = Set(pending, p,
                                 ProcessedBatch(op[p].matchFn, op[p].updateFn, batch))
        /\ pc' = Set(pc, p, "append")
        /\ UNCHANGED <<file, temp, op, canEnd, seen, err, ret, old, fault, renamed,
                       base, appended>>

\* update, transient: collect and return.
UpdateCollect(p) ==
    \E k \in 1..MaxBatch :
        /\ Reads(p, "update", k)
        /\ ~Durable(op[p])
        /\ acc' = Set(acc, p, acc[p] \o
                      UpdateCollected(op[p].matchFn, op[p].updateFn,
                                      BatchAt(file, pos[p], k)))
        /\ UNCHANGED <<file, temp, pc, op, pending, canEnd, seen, err, ret, old,
                       fault, renamed, base, appended>>

\* delete, durable: the visitor up to await tempFile.append(keptBatch), which is
\* skipped for a batch that keeps nothing.
DeleteBatch(p) ==
    \E k \in 1..MaxBatch :
        /\ Reads(p, "delete", k)
        /\ Durable(op[p])
        /\ LET keptBatch == KeptBatch(op[p].matchFn, BatchAt(file, pos[p], k))
           IN  /\ acc' = Set(acc, p, acc[p] \o keptBatch)
               /\ IF Len(keptBatch) > 0
                  THEN /\ pending' = Set(pending, p, keptBatch)
                       /\ pc' = Set(pc, p, "append")
                  ELSE UNCHANGED <<pending, pc>>
        /\ UNCHANGED <<file, temp, op, canEnd, seen, err, ret, old, fault, renamed,
                       base, appended>>

\* delete, transient: collect and return.
DeleteCollect(p) ==
    \E k \in 1..MaxBatch :
        /\ Reads(p, "delete", k)
        /\ ~Durable(op[p])
        /\ acc' = Set(acc, p, acc[p] \o
                      KeptCollected(op[p].matchFn, BatchAt(file, pos[p], k)))
        /\ UNCHANGED <<file, temp, pc, op, pending, canEnd, seen, err, ret, old,
                       fault, renamed, base, appended>>

\* Mutant: the batch is appended to the backing file, not to the temp file.
TempAppendInPlace(p) ==
    /\ pc[p] = "append"
    /\ file' = AppendRecords(file, pending[p])
    /\ temp' = Set(temp, p, AppendRecords(temp[p], <<>>))
    /\ pending' = Set(pending, p, <<>>)
    /\ pc' = Set(pc, p, "scan")
    /\ UNCHANGED <<op, pos, nbatches, acc, canEnd, seen, err, ret, old, fault,
                   renamed, base, appended>>

\* tempFile.append of the pending batch finishes; the scan goes on.
TempAppend(p) ==
    /\ pc[p] = "append"
    /\ temp' = Set(temp, p, AppendRecords(temp[p], pending[p]))
    /\ pending' = Set(pending, p, <<>>)
    /\ pc' = Set(pc, p, "scan")
    /\ UNCHANGED <<file, op, pos, nbatches, acc, canEnd, seen, err, ret, old, fault,
                   renamed, base, appended>>

\* jsonlFile.read resolves: the file is exhausted or the visitor said stop.
ReadEnd(p) ==
    /\ pc[p] = "scan"
    /\ AtEnd(file, pos[p]) \/ canEnd[p]
    /\ IF Rewriting(op[p])
       THEN /\ pc' = Set(pc, p, "rename")
            /\ UNCHANGED ret
       ELSE /\ pc' = Set(pc, p, "done")
            /\ ret' = Set(ret, p, Returned(acc[p]))
    /\ UNCHANGED <<file, temp, op, pos, nbatches, pending, acc, canEnd, seen, err,
                   old, fault, renamed, base, appended>>

\* Mutant: the temp file's lines are appended to the backing file instead of
\* replacing it.
RenameAppends(p) ==
    /\ pc[p] = "rename"
    /\ temp[p].exists
    /\ file' = AppendLines(file, temp[p].lines)
    /\ temp' = Set(temp, p, NoFile)
    /\ renamed' = Set(renamed, p, TRUE)
    /\ base' = ReadAll(temp[p])
    /\ appended' = <<>>
    /\ pc' = Set(pc, p, "cleanup")
    /\ UNCHANGED <<op, pos, nbatches, pending, acc, canEnd, seen, err, ret, old,
                   fault>>

\* await promises.rename(tempPath, filePath)
Rename(p) ==
    /\ pc[p] = "rename"
    /\ temp[p].exists
    /\ file' = temp[p]
    /\ temp' = Set(temp, p, NoFile)
    /\ renamed' = Set(renamed, p, TRUE)
    /\ base' = ReadAll(temp[p])
    /\ appended' = <<>>
    /\ pc' = Set(pc, p, "cleanup")
    /\ UNCHANGED <<op, pos, nbatches, pending, acc, canEnd, seen, err, ret, old,
                   fault>>

\* temporaryFileTask: the task has ended; the temp file is removed, and the
\* call returns the collected records or throws the task's error.
Cleanup(p) ==
    /\ pc[p] = "cleanup"
    /\ temp' = Set(temp, p, NoFile)
    /\ pc' = Set(pc, p, "done")
    /\ ret' = Set(ret, p, IF err[p] = "none" THEN Returned(acc[p]) ELSE Threw(err[p]))
    /\ UNCHANGED <<file, op, pos, nbatches, pending, acc, canEnd, seen, err, old,
                   fault, renamed, base, appended>>

Count(p) ==
    /\ pc[p] = "count"
    /\ pc' = Set(pc, p, "done")
    /\ ret' = Set(ret, p, ReturnedCount(CountOf(file)))
    /\ UNCHANGED <<file, temp, op, pos, nbatches, pending, acc, canEnd, seen, err,
                   old, fault, renamed, base, appended>>

\* The caller's await of the call resumes with ret[p]; the call's closure is gone.
Await(p) ==
    /\ pc[p] = "done"
    /\ pc' = Set(pc, p, "idle")
    /\ op' = Set(op, p, NoOp)
    /\ temp' = Set(temp, p, NoFile)
    /\ acc' = Set(acc, p, <<>>)
    /\ ret' = Set(ret, p, NoRet)
    /\ old' = Set(old, p, NoFile)
    /\ pos' = Set(pos, p, 0)
    /\ nbatches' = Set(nbatches, p, 0)
    /\ pending' = Set(pending, p, <<>>)
    /\ canEnd' = Set(canEnd, p, FALSE)
    /\ seen' = Set(seen, p, <<>>)
    /\ err' = Set(err, p, "none")
    /\ fault' = Set(fault, p, "none")
    /\ renamed' = Set(renamed, p, FALSE)
    /\ UNCHANGED <<file, base, appended>>

\* ------------------------------------------------------------ I/O failures
\* Mutant: the error is caught and dropped, and the task goes on to the rename.
TaskThrowsSwallowed(p, e, at) ==
    /\ fault' = Set(fault, p, at)
    /\ pending' = Set(pending, p, <<>>)
    /\ pc' = Set(pc, p, "rename")
    /\ UNCHANGED err

\* Mutant: the temp file is handled by hand and a throwing task leaves it behind.
TaskThrowsNoCleanup(p, e, at) ==
    /\ err' = Set(err, p, e)
    /\ fault' = Set(fault, p, at)
    /\ pending' = Set(pending, p, <<>>)
    /\ pc' = Set(pc, p, "done")

\* An await inside the task throws: nothing after it in the task runs.
TaskThrows(p, e, at) ==
    /\ err' = Set(err, p, e)
    /\ fault' = Set(fault, p, at)
    /\ pending' = Set(pending, p, <<>>)
    /\ pc' = Set(pc, p, "cleanup")

\* The scan fails before its next batch.
ReadFail(p) ==
    /\ pc[p] = "scan"
    /\ ~AtEnd(file, pos[p])
    /\ ~canEnd[p]
    /\ IF Rewriting(op[p])
       THEN /\ TaskThrows(p, "IOFailure", "scan")
            /\ UNCHANGED ret
       ELSE /\ pc' = Set(pc, p, "done")
            /\ ret' = Set(ret, p, Threw("IOFailure"))
            /\ fault' = Set(fault, p, "scan")
            /\ UNCHANGED <<err, pending>>
    /\ UNCHANGED <<file, temp, op, pos, nbatches, acc, canEnd, seen, old, renamed,
                   base, appended>>

\* tempFile.append fails, having written some of the batch's lines or none.
AppendFail(p) ==
    /\ pc[p] = "append"
    /\ \E k \in 0..(Len(pending[p]) - 1) :
           temp' = Set(temp, p, IF k = 0 THEN temp[p]
                                ELSE AppendRecords(temp[p], SubSeq(pending[p], 1, k)))
    /\ TaskThrows(p, "IOFailure", "append")
    /\ UNCHANGED <<file, op, pos, nbatches, acc, canEnd, seen, ret, old, renamed,
                   base, appended>>

\* rename fails: always when there is no file at tempPath, possibly otherwise.
RenameFail(p) ==
    /\ pc[p] = "rename"
    /\ TaskThrows(p, IF temp[p].exists THEN "IOFailure" ELSE "ENOENT", "rename")
    /\ UNCHANGED <<file, temp, op, pos, nbatches, acc, canEnd, seen, ret, old,
                   renamed, base, appended>>

\* ------------------------------------------------------- the specification
Quiescent == \A q \in Procs : pc[q] = "idle"

Calls(p) ==
    \/ \E data \in AddInputs, mutateDb \in BOOLEAN : add(p, data, mutateDb)
    \/ \E matchFn \in MatchFns : findOne(p, matchFn)
    \/ \E matchFn \in MatchFns : find(p, matchFn)
    \/ \E matchFn \in MatchFns, updateFn \in UpdateFns, mutateDb \in BOOLEAN :
           update(p, matchFn, updateFn, mutateDb)
    \/ \E matchFn \in MatchFns, mutateDb \in BOOLEAN : delete(p, matchFn, mutateDb)
    \/ count(p)

Steps(p) ==
    \/ AppendText(p)
    \/ FindOneBatch(p)
    \/ FindBatch(p)
    \/ UpdateBatch(p)
    \/ UpdateCollect(p)
    \/ DeleteBatch(p)
    \/ DeleteCollect(p)
    \/ TempAppend(p)
    \/ ReadEnd(p)
    \/ Rename(p)
    \/ Cleanup(p)
    \/ Count(p)
    \/ ReadFail(p)
    \/ AppendFail(p)
    \/ RenameFail(p)
    \/ Await(p)

\* One operation in flight at a time: the callers serialize their calls.
Next ==
    \/ Quiescent /\ Calls(MainProc)
    \/ \E p \in Procs : Steps(p)

Spec == Init /\ [][Next]_vars

\* ------------------------------------------------ concurrent callers
\* The component takes no lock: a caller may call while another call is in
\* flight.  The stores start short enough for an add to fit the bound.
InitConc == Init /\ Len(file.lines) < MaxLen

\* A rewrite by one caller, and durable adds by the other callers while that
\* rewrite is in flight.
\* The rewrites' matchFns are those true of {id: 1, name: "a"}; the adds' record
\* is {id: 2, name: "b"}.
LostMatchFns == {m \in MatchFns : [id |-> 1, name |-> "a"] \in m}
LostAdds == {d \in AddInputs : d.kind = "object" /\ d.val[1] = [id |-> 2, name |-> "b"]}

RewriteCalls(p) ==
    \/ \E matchFn \in LostMatchFns, updateFn \in UpdateFns :
           update(p, matchFn, updateFn, TRUE)
    \/ \E matchFn \in LostMatchFns : delete(p, matchFn, TRUE)

AddCalls(p) ==
    \E data \in LostAdds : add(p, data, TRUE)

NextLost ==
    \/ Quiescent /\ RewriteCalls(MainProc)
    \/ \E p \in Procs \ {MainProc} : pc[MainProc] # "idle" /\ AddCalls(p)
    \/ \E p \in Procs :
           \/ AppendText(p)
           \/ UpdateBatch(p)
           \/ DeleteBatch(p)
           \/ TempAppend(p)
           \/ ReadEnd(p)
           \/ Rename(p)
           \/ RenameFail(p)
           \/ Cleanup(p)
           \/ Await(p)

SpecLost == InitConc /\ [][NextLost]_vars

\* find, findOne and count called by any caller at any time.
ReadCalls(p) ==
    \/ \E matchFn \in MatchFns : findOne(p, matchFn)
    \/ \E matchFn \in MatchFns : find(p, matchFn)
    \/ count(p)

NextReads ==
    \E p \in Procs :
        \/ ReadCalls(p)
        \/ FindOneBatch(p)
        \/ FindBatch(p)
        \/ ReadEnd(p)
        \/ Count(p)
        \/ Await(p)

SpecReads == InitConc /\ [][NextReads]_vars

\* ------------------------------------------------------------- properties
\* What the operations are meant to compute, stated on whole record sequences.
Satisfying(rs, m) == SelectSeq(rs, LAMBDA r : r \in m)
NotSatisfying(rs, m) == SelectSeq(rs, LAMBDA r : r \notin m)
Transformed(rs, m, fn) ==
    LET hit == Satisfying(rs, m) IN [i \in 1..Len(hit) |-> fn[hit[i]]]
ReplacedInPlace(rs, m, fn) ==
    [i \in 1..Len(rs) |-> IF rs[i] \in m THEN fn[rs[i]] ELSE rs[i]]
FirstSatisfying(rs, m) ==
    LET hits == {i \in 1..Len(rs) : rs[i] \in m}
    IN  IF hits = {} THEN Undefined
        ELSE Some(rs[CHOOSE i \in hits : \A j \in hits : i <= j])
RewrittenRecords(o, rs) ==
    IF o.name = "update" THEN ReplacedInPlace(rs, o.matchFn, o.updateFn)
    ELSE NotSatisfying(rs, o.matchFn)

OldRecords(p) == ReadAll(old[p])
DurableCall(p) == op[p].name \in {"update", "delete"} /\ op[p].mutateDb
TransientCall(p) == op[p].name \in {"update", "delete"} /\ ~op[p].mutateDb
Completed(p) == pc[p] = "done" /\ ret[p].status = "ok"

\* C1: while a durable update or delete is in flight, and after it, the backing
\* file is either exactly what it was when the call was made or exactly the
\* complete rewritten record sequence; never a partial rewrite.
C1_OldOrNew ==
    \A p \in Procs :
        DurableCall(p) =>
            \/ file = old[p]
            \/ file.exists /\ ReadAll(file) = RewrittenRecords(op[p], OldRecords(p))

\* C1 witness: a rewrite is under way with part of the new content in the temp file.
C1_Witness ==
    \E p \in Procs :
        /\ DurableCall(p)
        /\ pc[p] = "scan"
        /\ Len(temp[p].lines) > 0
        /\ pos[p] < Len(old[p].lines)
        /\ RewrittenRecords(op[p], OldRecords(p)) # OldRecords(p)

\* C2: when the scan or an append to the temp file fails in a durable update or
\* delete, the rename is never performed, the backing file is what it was when
\* the call was made, and the call ends by throwing that error.
C2_FailureLeavesOriginal ==
    \A p \in Procs :
        DurableCall(p) /\ fault[p] \in {"scan", "append"} =>
            /\ ~renamed[p]
            /\ file = old[p]
            /\ pc[p] \in {"cleanup", "done"}
            /\ pc[p] = "done" => ret[p] = Threw("IOFailure")

\* C2 witness: an update whose append failed after an earlier batch was written
\* has thrown.
C2_Witness ==
    \E p \in Procs :
        /\ DurableCall(p)
        /\ op[p].name = "update"
        /\ fault[p] = "append"
        /\ nbatches[p] >= 2
        /\ pc[p] = "done"
        /\ RewrittenRecords(op[p], OldRecords(p)) # OldRecords(p)

\* C3: a completed durable update leaves as many records as before, the record
\* at each position being updateFn of the old one if matchFn holds of it, and the
\* old one otherwise.
C3_UpdateInPlace ==
    \A p \in Procs :
        Completed(p) /\ op[p].name = "update" /\ op[p].mutateDb =>
            /\ Len(ReadAll(file)) = Len(OldRecords(p))
            /\ \A i \in 1..Len(OldRecords(p)) :
                   ReadAll(file)[i] =
                       IF OldRecords(p)[i] \in op[p].matchFn
                       THEN op[p].updateFn[OldRecords(p)[i]]
                       ELSE OldRecords(p)[i]

\* C3 witness: an update over several batches changed the first record and left
\* a later one as it was.
C3_Witness ==
    \E p \in Procs :
        /\ Completed(p) /\ op[p].name = "update" /\ op[p].mutateDb
        /\ nbatches[p] >= 2
        /\ OldRecords(p)[1] \in op[p].matchFn
        /\ ReadAll(file)[1] # OldRecords(p)[1]
        /\ \E i \in 2..Len(OldRecords(p)) : OldRecords(p)[i] \notin op[p].matchFn

\* C4: a completed durable delete leaves exactly the records matchFn does not
\* hold of, in their order, and returns that same sequence.
C4_DeleteKeeps ==
    \A p \in Procs :
        Completed(p) /\ op[p].name = "delete" /\ op[p].mutateDb =>
            /\ ReadAll(file) = NotSatisfying(OldRecords(p), op[p].matchFn)
            /\ ret[p].value = ReadAll(file)

\* C4 witness: a delete over several batches removed a record and kept two.
C4_Witness ==
    \E p \in Procs :
        /\ Completed(p) /\ op[p].name = "delete" /\ op[p].mutateDb
        /\ nbatches[p] >= 2
        /\ Len(ReadAll(file)) >= 2
        /\ Len(ReadAll(file)) < Len(OldRecords(p))
        /\ ReadAll(file)[1] # ReadAll(file)[2]

\* C5: find with an always-true matchFn returns the records stored before the
\* durable adds followed by the added records in the order they were given.
C5_AddThenFind ==
    \A p \in Procs :
        Completed(p) /\ op[p].name = "find" /\ op[p].matchFn = AlwaysTrue =>
            ret[p].value = base \o appended

\* C5 witness: a find sees two different added records after a stored one.
C5_Witness ==
    \E p \in Procs :
        /\ Completed(p) /\ op[p].name = "find" /\ op[p].matchFn = AlwaysTrue
        /\ Len(base) >= 1
        /\ Len(appended) >= 2
        /\ appended[1] # appended[2]

\* C6: a transient update or delete leaves the backing file as it was, creates no
\* temp file and renames nothing, so count and every find give what they gave.
C6_TransientFrame ==
    \A p \in Procs :
        TransientCall(p) =>
            /\ file = old[p]
            /\ CountOf(file) = CountOf(old[p])
            /\ ~temp[p].exists
            /\ ~renamed[p]
            /\ pc[p] \in {"scan", "done"}

\* C6 witness: a transient update has returned updated records.
C6_Witness ==
    \E p \in Procs :
        /\ TransientCall(p) /\ Completed(p)
        /\ op[p].name = "update"
        /\ Len(ret[p].value) >= 1
        /\ ret[p].value # Satisfying(OldRecords(p), op[p].matchFn)

\* C7: in both modes update returns updateFn of each record matchFn holds of, in
\* file order and nothing else, and delete returns the records it does not hold of.
C7_SameReturnBothModes ==
    \A p \in Procs :
        Completed(p) =>
            /\ op[p].name = "update" =>
                   ret[p].value = Transformed(OldRecords(p), op[p].matchFn,
                                              op[p].updateFn)
            /\ op[p].name = "delete" =>
                   ret[p].value = NotSatisfying(OldRecords(p), op[p].matchFn)

\* C7 witness: a transient update returned a changed record and left one out.
C7_Witness ==
    \E p \in Procs :
        /\ Completed(p) /\ op[p].name = "update" /\ ~op[p].mutateDb
        /\ Len(ret[p].value) >= 1
        /\ Len(ret[p].value) < Len(OldRecords(p))
        /\ ret[p].value # Satisfying(OldRecords(p), op[p].matchFn)
        /\ nbatches[p] >= 2

\* C8: findOne returns the first record in file order that matchFn holds of, and
\* undefined, without throwing, when there is none or the file is absent.
C8_FindOneFirst ==
    \A p \in Procs :
        pc[p] = "done" /\ op[p].name = "findOne" /\ fault[p] = "none" =>
            ret[p] = Returned(FirstSatisfying(OldRecords(p), op[p].matchFn))

\* C8 witness: the record returned lies in the second batch, and a different
\* record after it matches too.
C8_Witness ==
    \E p \in Procs :
        /\ Completed(p) /\ op[p].name = "findOne"
        /\ nbatches[p] >= 2
        /\ ret[p].value # Undefined
        /\ \E i \in 1..Len(OldRecords(p)) :
               /\ OldRecords(p)[i] \in op[p].matchFn
               /\ Some(OldRecords(p)[i]) # ret[p].value

\* C9: find scans the whole file and returns exactly the records matchFn holds
\* of, in file order; the empty sequence when there is none.
C9_FindAll ==
    \A p \in Procs :
        pc[p] = "done" /\ op[p].name = "find" /\ fault[p] = "none" =>
            /\ ret[p] = Returned(Satisfying(OldRecords(p), op[p].matchFn))
            /\ pos[p] = Len(old[p].lines)

\* C9 witness: a find over several batches returned matches from two of them and
\* left a record out.
C9_Witness ==
    \E p \in Procs :
        /\ Completed(p) /\ op[p].name = "find"
        /\ nbatches[p] >= 3
        /\ Len(ret[p].value) = 2
        /\ OldRecords(p)[1] \in op[p].matchFn
        /\ OldRecords(p)[2] \notin op[p].matchFn

\* What the visitor of operation o computes when the whole of file f is
\* delivered to it as one batch, and what it then writes to the temp file.
OneBatchValue(o, f) ==
    CASE o.name = "findOne" ->
             FindOneVisitor(o.matchFn, ReadAll(f), Undefined, FALSE).found
      [] o.name = "find" -> FindVisitor(o.matchFn, ReadAll(f), <<>>)
      [] o.name = "update" /\ o.mutateDb ->
             UpdatePushed(o.matchFn, o.updateFn, ReadAll(f))
      [] o.name = "update" /\ ~o.mutateDb ->
             UpdateCollected(o.matchFn, o.updateFn, ReadAll(f))
      [] o.name = "delete" /\ o.mutateDb -> KeptBatch(o.matchFn, ReadAll(f))
      [] o.name = "delete" /\ ~o.mutateDb -> KeptCollected(o.matchFn, ReadAll(f))
OneBatchWritten(o, f) ==
    IF o.name = "update" THEN ProcessedBatch(o.matchFn, o.updateFn, ReadAll(f))
    ELSE KeptBatch(o.matchFn, ReadAll(f))

\* C10: however the scan cuts the file into batches, findOne, find, update and
\* delete return what they return when the file is delivered as one batch, and a
\* durable update or delete leaves the file that one batch would leave.
C10_BatchingInvisible ==
    \A p \in Procs :
        Completed(p) /\ op[p].name \in {"findOne", "find", "update", "delete"} =>
            /\ ret[p].value = OneBatchValue(op[p], old[p])
            /\ DurableCall(p) =>
                   file.lines = StringifyAll(OneBatchWritten(op[p], old[p]))

\* C10 witness: a durable update that changed the file was fed batches of
\* unequal sizes.
C10_Witness ==
    \E p \in Procs :
        /\ Completed(p) /\ DurableCall(p) /\ op[p].name = "update"
        /\ nbatches[p] >= 2
        /\ nbatches[p] < Len(old[p].lines)
        /\ Len(ret[p].value) >= 2
        /\ file # old[p]

\* C11: add given null, a number or a string throws the invalid-input error in
\* both modes, and the backing file is as it was: nothing appended, none created.
C11_AddRejectsInvalid ==
    \A p \in Procs :
        op[p].name = "add" /\ op[p].data.kind \in {"null", "number", "string"} =>
            /\ pc[p] = "done"
            /\ ret[p] = Threw("InvalidInput")
            /\ file = old[p]

\* C11 witness: a durable add of null on a store with no file has thrown.
C11_Witness ==
    \E p \in Procs :
        /\ op[p].name = "add" /\ op[p].data.kind = "null" /\ op[p].mutateDb
        /\ ret[p].status = "error"
        /\ ~file.exists

\* C12: add returns the accepted records in both modes, one record for a single
\* object, and a transient add leaves the backing file as it was.
C12_AddReturnsAccepted ==
    \A p \in Procs :
        op[p].name = "add" /\ pc[p] = "done"
            /\ op[p].data.kind \in {"object", "array"} =>
            /\ ret[p] = Returned(op[p].data.val)
            /\ op[p].data.kind = "object" => Len(ret[p].value) = 1
            /\ ~op[p].mutateDb =>
                   /\ file = old[p]
                   /\ CountOf(file) = CountOf(old[p])

\* C12 witness: a transient add of two records has returned them.
C12_Witness ==
    \E p \in Procs :
        /\ op[p].name = "add" /\ Completed(p) /\ ~op[p].mutateDb
        /\ Len(ret[p].value) = 2
        /\ ret[p].value[1] # ret[p].value[2]
        /\ file.exists

\* C13: add of an empty array returns the empty sequence and appends nothing in
\* either mode: the file is as it was, and an absent file stays absent.
C13_AddEmptyArray ==
    \A p \in Procs :
        op[p].name = "add" /\ op[p].data = [kind |-> "array", val |-> <<>>] =>
            /\ pc[p] = "done"
            /\ ret[p] = Returned(<<>>)
            /\ file = old[p]

\* C13 witness: a durable add of an empty array on a store with no file has
\* returned.
C13_Witness ==
    \E p \in Procs :
        /\ op[p].name = "add" /\ op[p].data = [kind |-> "array", val |-> <<>>]
        /\ op[p].mutateDb
        /\ Completed(p)
        /\ ~file.exists

\* C16: once a durable update or delete has ended, by returning or by throwing
\* at the scan, an append or the rename, no temp file of it is left; if it
\* returned, the rename has put the temp file's content at the backing path.
C16_NoTempLeft ==
    \A p \in Procs :
        DurableCall(p) /\ pc[p] = "done" =>
            /\ ~temp[p].exists
            /\ ret[p].status \in {"ok", "error"}
            /\ ret[p].status = "ok" => renamed[p] /\ file.exists

\* C16 witness: an update whose rename failed, with batches already in its temp
\* file, has thrown.
C16_Witness ==
    \E p \in Procs :
        /\ DurableCall(p) /\ pc[p] = "done"
        /\ fault[p] = "rename"
        /\ ret[p] = Threw("IOFailure")
        /\ op[p].name = "update"
        /\ nbatches[p] >= 2

\* The records of the file p's scan has read so far.
ScannedRecords(p) == ParseAll(SubSeq(old[p].lines, 1, pos[p]))

\* C17 as claimed: when findOne's visitor signals stop, matchFn has been applied
\* to every record of the batches read, those after the first match included.
C17_WholeBatchEvaluated ==
    \A p \in Procs :
        op[p].name = "findOne" /\ canEnd[p] => seen[p] = ScannedRecords(p)

\* C17 amended: findOne applies matchFn to the records up to and including the
\* first match and to none after it, in its batch or later; with no match yet, to
\* every record read.
C17_StopsAtFirstMatch ==
    \A p \in Procs :
        op[p].name = "findOne" =>
            LET hits == {i \in 1..pos[p] : OldRecords(p)[i] \in op[p].matchFn}
            IN  IF hits = {} THEN seen[p] = ScannedRecords(p)
                ELSE seen[p] = SubSeq(OldRecords(p), 1,
                                      CHOOSE i \in hits : \A j \in hits : i <= j)

\* C17 witness: findOne has returned a match that a record of the same batch
\* follows, and matchFn was not applied to that record.
C17_Witness ==
    \E p \in Procs :
        /\ op[p].name = "findOne" /\ Completed(p)
        /\ ret[p].value # Undefined
        /\ nbatches[p] = 1
        /\ Len(seen[p]) < pos[p]

\* C18: findOne's visitor signals stop exactly when a record read so far matches;
\* from then on no batch is read and matchFn is applied to nothing more, and a
\* scan that never saw a match goes on to the end of the file.
C18_StopInv ==
    \A p \in Procs :
        op[p].name = "findOne" =>
            /\ canEnd[p] <=> \E i \in 1..pos[p] : OldRecords(p)[i] \in op[p].matchFn
            /\ pc[p] = "done" /\ fault[p] = "none" /\ ~canEnd[p] =>
                   pos[p] = Len(old[p].lines)
C18_StopStep ==
    \A p \in Procs :
        op[p].name = "findOne" /\ canEnd[p] =>
            \/ pos'[p] = pos[p] /\ nbatches'[p] = nbatches[p] /\ seen'[p] = seen[p]
            \/ pc'[p] = "idle"
C18_StopsAfterMatch == []C18_StopInv /\ [][C18_StopStep]_vars

\* C18 witness: findOne returned a match from the first batch and left unread a
\* later record that matches too.
C18_Witness ==
    \E p \in Procs :
        /\ op[p].name = "findOne" /\ Completed(p)
        /\ canEnd[p]
        /\ nbatches[p] = 1
        /\ \E i \in (pos[p] + 1)..Len(old[p].lines) :
               OldRecords(p)[i] \in op[p].matchFn

\* No I/O failure was injected into p's operation: an error in it, if any, is the
\* rename finding no file at tempPath.
NoInjectedFailure(p) == err[p] \in {"none", "ENOENT"} /\ fault[p] \in {"none", "rename"}

\* C19 as claimed: a durable delete whose matchFn holds of every record of a
\* non-empty store returns the empty sequence, and the store then counts 0.
C19_DeleteAllCompletes ==
    \A p \in Procs :
        /\ op[p].name = "delete" /\ op[p].mutateDb
        /\ pc[p] = "done" /\ NoInjectedFailure(p)
        /\ Len(OldRecords(p)) >= 1
        /\ \A i \in 1..Len(OldRecords(p)) : OldRecords(p)[i] \in op[p].matchFn
        => /\ ret[p] = Returned(<<>>)
           /\ CountOf(file) = 0
           /\ ReadAll(file) = <<>>

\* C20 as claimed: a durable update or delete on a store with no backing file
\* returns the empty sequence, and the store then counts 0.
C20_AbsentStoreCompletes ==
    \A p \in Procs :
        /\ DurableCall(p)
        /\ ~old[p].exists
        /\ pc[p] = "done" /\ NoInjectedFailure(p)
        => /\ ret[p] = Returned(<<>>)
           /\ CountOf(file) = 0
           /\ ReadAll(file) = <<>>

\* C14: with a durable add running beside a durable update or delete, the rename
\* installs the rewrite of exactly the lines the scan had read: lines an add
\* appended to the backing file after the scan and before the rename are gone,
\* and nothing in the component stops the add or fails it.
C14_RenameStep ==
    \A p \in Procs :
        DurableCall(p) /\ pc[p] = "rename" /\ renamed'[p] =>
            ReadAll(file') =
                RewrittenRecords(op[p], ParseAll(SubSeq(file.lines, 1, pos[p])))
C14_LateAppendLost == [][C14_RenameStep]_vars

\* C14 witness: an add called on the file the update was called on has returned
\* its record, the update had scanned that whole file before the append and has
\* renamed after it, and the file has no more records than before the add.
C14_Witness ==
    \E p \in Procs, q \in Procs :
        /\ p # q
        /\ DurableCall(p) /\ op[p].name = "update" /\ renamed[p]
        /\ op[q].name = "add" /\ op[q].mutateDb /\ Completed(q)
        /\ Len(ret[q].value) = 1
        /\ old[q] = old[p]
        /\ Len(old[p].lines) >= 1
        /\ pos[p] = Len(old[p].lines)
        /\ Len(file.lines) = Len(old[p].lines)
        /\ \A i \in 1..Len(file.lines) : ReadAll(file)[i] # ret[q].value[1]

\* C15: while find, findOne and count calls interleave, the backing file stays
\* what it was, and each call returns what it returns on that file alone.
C15_ReadsIndependent ==
    \A p \in Procs :
        op[p].name \in {"find", "findOne", "count"} =>
            /\ file = old[p]
            /\ pc[p] = "done" =>
                   /\ op[p].name = "find" =>
                          ret[p] = Returned(Satisfying(OldRecords(p), op[p].matchFn))
                   /\ op[p].name = "findOne" =>
                          ret[p] = Returned(FirstSatisfying(OldRecords(p),
                                                            op[p].matchFn))
                   /\ op[p].name = "count" =>
                          ret[p] = ReturnedCount(Len(old[p].lines))

\* C15 witness: a find has returned matches after two batches while a findOne
\* that has read a batch without a match is still scanning the same file.
C15_Witness ==
    \E p \in Procs, q \in Procs :
        /\ p # q
        /\ op[p].name = "find" /\ Completed(p)
        /\ nbatches[p] >= 2
        /\ Len(ret[p].value) >= 1
        /\ op[q].name = "findOne" /\ pc[q] = "scan"
        /\ nbatches[q] >= 1
        /\ acc[q] = Undefined

====
